---- MODULE Spec2Model ----
(***************************************************************************)
(* Model of the coffee-order bot (Ludentes/coffee-demo): the messageParser *)
(* service (calculateSimilarity, findBestMatch, splitOrderItems,           *)
(* parseOrderItem, parseOrder), the orderCalculator service (roundCurrency,*)
(* calculateTax, generateOrderId, createOrder) and the text message        *)
(* handler of the Telegraf bot.                                            *)
(*                                                                         *)
(* Currency amounts are integers counted in thousandths of a cent          *)
(* (Cent == 1000), so that the 8.5% tax of a cent amount is exact before   *)
(* it is rounded; every amount the bot computes is a multiple of half a    *)
(* dollar before tax, which a double holds exactly.  Similarity scores are *)
(* reduced fractions [num, den]; for strings of up to 40 characters their  *)
(* order as doubles is their order as fractions.                           *)
(***************************************************************************)
EXTENDS Integers, Sequences, FiniteSets, TLC

VARIABLES
  menuItems, sizes, milkTypes,   \* messageParser's dictionaries: the lexicon
  str1, str2, score,        \* calculateSimilarity: the arguments and the returned score
  matchTerm, matchDictionary, matchThreshold,   \* findBestMatch: the arguments
  matched,                  \* what findBestMatch returned
  text,                     \* the text given to splitOrderItems, parseOrderItem, parseOrder
  items,                    \* what splitOrderItems(text) returned
  parsedItem,               \* what parseOrderItem(text) returned
  parsedOrder,              \* what parseOrder(text) returned
  buyer,                    \* the customer given to createOrder
  order,                    \* what createOrder(parsedOrder.items, buyer) returned
  parses,                   \* the calls of parseOrder so far: their texts and results
  now,                      \* the clock, Date.now()
  updates,                  \* the text messages the bot received, in order of arrival
  pc,                       \* per update, where the handler's run on it stands
  handlers,                 \* per update, what the handler's run on it holds and has sent
  orders                    \* the orders createOrder returned to the handlers, in order

vars == <<menuItems, sizes, milkTypes, str1, str2, score, matchTerm, matchDictionary, matchThreshold, matched, text, items, parsedItem, parsedOrder, buyer, order,
          parses, now, updates, pc, handlers, orders>>

\* The result of a call: Pending until it returns, then Returned(value).
Pending == {}
Returned(v) == {v}
ValueOf(r) == CHOOSE v \in r : TRUE

(***************************************************************************)
(* Bounds of the model.                                                    *)
(***************************************************************************)
MaxStrLen == 3       \* calculateSimilarity: the length of its arguments
MaxPieces == 4       \* splitOrderItems: the pieces its argument is made of
MaxQuantity == 2     \* the quantities written in an item text
MaxItems == 3        \* the item texts of an order text
MaxParses == 3       \* the calls of parseOrder one after the other
MaxUpdates == 2      \* the text messages the bot receives
MaxClock == 2        \* the milliseconds the clock advances

(***************************************************************************)
(* JavaScript string primitives.  A string is a TLA+ string; its i-th      *)
(* character (from 1) is SubSeq(s, i, i).                                  *)
(***************************************************************************)
Min(x, y) == IF x <= y THEN x ELSE y
Max(x, y) == IF x >= y THEN x ELSE y

charAt(s, i) == SubSeq(s, i, i)

\* The strings made of at most n pieces drawn from the set S of strings.
RECURSIVE StringsUpTo(_, _)
StringsUpTo(S, n) ==
  IF n = 0 THEN {""}
  ELSE LET P == StringsUpTo(S, n - 1) IN P \cup {p \o c : p \in P, c \in S}

\* String.prototype.toLowerCase on one character.
LowerChar(c) ==
  CASE c = "A" -> "a"
    [] c = "B" -> "b"
    [] c = "C" -> "c"
    [] c = "L" -> "l"
    [] c = "M" -> "m"
    [] c = "O" -> "o"
    [] c = "S" -> "s"
    [] OTHER -> c

RECURSIVE toLowerCase(_)
toLowerCase(s) ==
  IF s = "" THEN "" ELSE LowerChar(Head(s)) \o toLowerCase(Tail(s))

\* String.prototype.startsWith.
startsWith(s, pre) == Len(pre) <= Len(s) /\ SubSeq(s, 1, Len(pre)) = pre

\* String.prototype.indexOf, from 1; 0 when sub does not occur in s.
indexOf(s, sub) ==
  LET At == {i \in 1..(Len(s) - Len(sub) + 1) : SubSeq(s, i, i + Len(sub) - 1) = sub}
  IN IF At = {} THEN 0 ELSE CHOOSE i \in At : \A k \in At : i <= k

\* String.prototype.includes: sub occurs in s as a contiguous run.
includes(s, sub) == indexOf(s, sub) # 0

(***************************************************************************)
(* Scores: the number n/d as a reduced fraction.                           *)
(***************************************************************************)
RECURSIVE GCD(_, _)
GCD(x, y) == IF y = 0 THEN x ELSE GCD(y, x % y)

Frac(n, d) == LET g == GCD(n, d) IN [num |-> n \div g, den |-> d \div g]

ScoreOne == Frac(1, 1)
ScoreContains == Frac(9, 10)
ScoreZero == Frac(0, 1)

ScoreGT(x, y) == x.num * y.den > y.num * x.den
ScoreLE(x, y) == ~ScoreGT(x, y)

(***************************************************************************)
(* messageParser.calculateSimilarity                                       *)
(***************************************************************************)
\* matrix[0][j] = j for j = 0..b.length (held at index j + 1).
firstRow(b) == [k \in 1..(Len(b) + 1) |-> k - 1]

\* The inner loop over j of the matrix fill, for row i: row holds
\* matrix[i][0..j-1] and prev is matrix[i-1].
\* A variant of fillRow in which a substitution costs 2; the properties of
\* calculateSimilarity must tell it from fillRow.
RECURSIVE fillRowDearSubstitution(_, _, _, _, _)
fillRowDearSubstitution(a, b, prev, i, row) ==
  IF Len(row) = Len(b) + 1 THEN row
  ELSE LET j == Len(row)
           cost == IF charAt(a, i) = charAt(b, j) THEN 0 ELSE 2
           cell == Min(Min(prev[j + 1] + 1, row[j] + 1), prev[j] + cost)
       IN fillRowDearSubstitution(a, b, prev, i, Append(row, cell))

RECURSIVE fillRow(_, _, _, _, _)
fillRow(a, b, prev, i, row) ==
  IF Len(row) = Len(b) + 1 THEN row
  ELSE LET j == Len(row)
           cost == IF charAt(a, i) = charAt(b, j) THEN 0 ELSE 1
           cell == Min(Min(prev[j + 1] + 1,     \* deletion
                           row[j] + 1),         \* insertion
                       prev[j] + cost)          \* substitution
       IN fillRow(a, b, prev, i, Append(row, cell))

\* The outer loop over i: matrix holds the rows matrix[0..i-1], row i at
\* index i + 1, and is returned once it holds the rows 0..a.length.
RECURSIVE fillMatrix(_, _, _)
fillMatrix(a, b, matrix) ==
  IF Len(matrix) = Len(a) + 1 THEN matrix
  ELSE LET i == Len(matrix)
       IN fillMatrix(a, b, Append(matrix, fillRow(a, b, matrix[i], i, <<i>>)))

\* matrix[a.length][b.length]
levenshtein(a, b) == fillMatrix(a, b, <<firstRow(b)>>)[Len(a) + 1][Len(b) + 1]

\* The score of the lowercased strings a and b.
\* A variant of similarityOf that looks for the second string in the first
\* only; the properties of calculateSimilarity must tell it from similarityOf.
similarityOneSided(a, b) ==
  IF a = b THEN ScoreOne
  ELSE IF includes(a, b) THEN ScoreContains
  ELSE Frac(Max(Len(a), Len(b)) - levenshtein(a, b), Max(Len(a), Len(b)))

similarityOf(a, b) ==
  IF a = b THEN ScoreOne
  ELSE IF includes(a, b) \/ includes(b, a) THEN ScoreContains
  ELSE Frac(Max(Len(a), Len(b)) - levenshtein(a, b), Max(Len(a), Len(b)))

calculateSimilarity(s1, s2) == similarityOf(toLowerCase(s1), toLowerCase(s2))

(***************************************************************************)
(* messageParser menu data.  A dictionary is the sequence of its entries   *)
(* [key, item] in declaration order, the order Object.entries yields.      *)
(***************************************************************************)
Cent == 1000

Null == [null |-> TRUE]

menuItemsAtLoad == <<
  [key |-> "cappuccino",
   item |-> [id |-> "cap1", name |-> "Cappuccino", basePrice |-> 350 * Cent,
             sizes |-> << [name |-> "Small", priceModifier |-> -50 * Cent],
                          [name |-> "Medium", priceModifier |-> 0],
                          [name |-> "Large", priceModifier |-> 50 * Cent] >>,
             milkOptions |-> << [name |-> "Whole Milk", priceModifier |-> 0],
                                [name |-> "Oat Milk", priceModifier |-> 50 * Cent],
                                [name |-> "Almond Milk", priceModifier |-> 50 * Cent] >>,
             aliases |-> <<"cap", "capp", "cappucino", "capuccino">>]],
  [key |-> "latte",
   item |-> [id |-> "lat1", name |-> "Latte", basePrice |-> 400 * Cent,
             sizes |-> << [name |-> "Small", priceModifier |-> -50 * Cent],
                          [name |-> "Medium", priceModifier |-> 0],
                          [name |-> "Large", priceModifier |-> 50 * Cent] >>,
             milkOptions |-> << [name |-> "Whole Milk", priceModifier |-> 0],
                                [name |-> "Oat Milk", priceModifier |-> 50 * Cent],
                                [name |-> "Almond Milk", priceModifier |-> 50 * Cent] >>,
             aliases |-> <<"lat", "cafe latte", "coffee latte">>]] >>

sizesAtLoad == <<
  [key |-> "small",    item |-> [name |-> "Small",  priceModifier |-> -50 * Cent]],
  [key |-> "medium",   item |-> [name |-> "Medium", priceModifier |-> 0]],
  [key |-> "large",    item |-> [name |-> "Large",  priceModifier |-> 50 * Cent]],
  [key |-> "s",        item |-> [name |-> "Small",  priceModifier |-> -50 * Cent]],
  [key |-> "m",        item |-> [name |-> "Medium", priceModifier |-> 0]],
  [key |-> "l",        item |-> [name |-> "Large",  priceModifier |-> 50 * Cent]],
  [key |-> "regular",  item |-> [name |-> "Medium", priceModifier |-> 0]],
  [key |-> "big",      item |-> [name |-> "Large",  priceModifier |-> 50 * Cent]],
  [key |-> "standard", item |-> [name |-> "Medium", priceModifier |-> 0]] >>

milkTypesAtLoad == <<
  [key |-> "whole milk",   item |-> [name |-> "Whole Milk",  priceModifier |-> 0]],
  [key |-> "oat milk",     item |-> [name |-> "Oat Milk",    priceModifier |-> 50 * Cent]],
  [key |-> "almond milk",  item |-> [name |-> "Almond Milk", priceModifier |-> 50 * Cent]],
  [key |-> "whole",        item |-> [name |-> "Whole Milk",  priceModifier |-> 0]],
  [key |-> "oat",          item |-> [name |-> "Oat Milk",    priceModifier |-> 50 * Cent]],
  [key |-> "almond",       item |-> [name |-> "Almond Milk", priceModifier |-> 50 * Cent]],
  [key |-> "regular milk", item |-> [name |-> "Whole Milk",  priceModifier |-> 0]],
  [key |-> "regular",      item |-> [name |-> "Whole Milk",  priceModifier |-> 0]],
  [key |-> "normal milk",  item |-> [name |-> "Whole Milk",  priceModifier |-> 0]],
  [key |-> "normal",       item |-> [name |-> "Whole Milk",  priceModifier |-> 0]] >>

\* dictionary[key]: the entry declared under key.
entryOf(dictionary, key) ==
  dictionary[CHOOSE i \in 1..Len(dictionary) : dictionary[i].key = key]

(***************************************************************************)
(* messageParser.findBestMatch                                             *)
(***************************************************************************)
DefaultThreshold == Frac(7, 10)

\* A variant of consider that also takes a candidate whose score equals the
\* best score so far; the properties of findBestMatch must tell it from consider.
considerEqualToo(entry, candidateScore, best) ==
  IF ~ScoreGT(best.bestScore, candidateScore)
  THEN [bestMatch |-> [key |-> entry.key, item |-> entry.item, score |-> candidateScore],
        bestScore |-> candidateScore]
  ELSE best

\* "if (score > bestScore) { bestMatch = {key, item, score}; bestScore = score }":
\* best is [bestMatch, bestScore].
consider(entry, candidateScore, best) ==
  IF ScoreGT(candidateScore, best.bestScore)
  THEN [bestMatch |-> [key |-> entry.key, item |-> entry.item, score |-> candidateScore],
        bestScore |-> candidateScore]
  ELSE best

\* The loop over item.aliases: acc is [best, k], k the next alias.
RECURSIVE matchAliases(_, _, _)
matchAliases(term, entry, acc) ==
  IF acc.k > Len(entry.item.aliases) THEN acc.best
  ELSE matchAliases(term, entry,
         [best |-> consider(entry, calculateSimilarity(term, entry.item.aliases[acc.k]), acc.best),
          k |-> acc.k + 1])

\* One pass of the loop over Object.entries(dictionary).
matchEntry(term, entry, best) ==
  IF "aliases" \in DOMAIN entry.item
  THEN matchAliases(term, entry,
         [best |-> consider(entry, calculateSimilarity(term, entry.key), best), k |-> 1])
  ELSE consider(entry, calculateSimilarity(term, entry.key), best)

\* The loop over Object.entries(dictionary): acc is [best, n], n the next entry.
RECURSIVE matchEntries(_, _, _)
matchEntries(term, dictionary, acc) ==
  IF acc.n > Len(dictionary) THEN acc.best
  ELSE matchEntries(term, dictionary,
         [best |-> matchEntry(term, dictionary[acc.n], acc.best), n |-> acc.n + 1])

findBestMatchAbove(term, dictionary, threshold) ==
  matchEntries(term, dictionary,
    [best |-> [bestMatch |-> Null, bestScore |-> threshold], n |-> 1]).bestMatch

\* findBestMatch with its default threshold of 0.7.
findBestMatch(term, dictionary) == findBestMatchAbove(term, dictionary, DefaultThreshold)

(***************************************************************************)
(* messageParser.splitOrderItems                                           *)
(***************************************************************************)
Whitespace == {" ", "\t", "\n"}

RECURSIVE trimStart(_)
trimStart(s) == IF s # "" /\ Head(s) \in Whitespace THEN trimStart(Tail(s)) ELSE s

RECURSIVE trimEnd(_)
trimEnd(s) ==
  IF s # "" /\ charAt(s, Len(s)) \in Whitespace
  THEN trimEnd(SubSeq(s, 1, Len(s) - 1)) ELSE s

\* String.prototype.trim
trim(s) == trimEnd(trimStart(s))

\* String.prototype.split with a non-empty string separator.
RECURSIVE split(_, _)
split(s, separator) ==
  LET i == indexOf(s, separator)
  IN IF i = 0 THEN <<s>>
     ELSE <<SubSeq(s, 1, i - 1)>> \o split(SubSeq(s, i + Len(separator), Len(s)), separator)

\* .map(i => i.trim()).filter(i => i)
RECURSIVE trimAndFilter(_)
trimAndFilter(parts) ==
  IF parts = <<>> THEN <<>>
  ELSE LET t == trim(Head(parts))
       IN (IF t # "" THEN <<t>> ELSE <<>>) \o trimAndFilter(Tail(parts))

\* A variant of separators without the plus sign; the properties of
\* splitOrderItems must tell it from separators.
separatorsWithoutPlus == <<",", " and ", ";">>

\* const separators = [',', ' and ', ';', '+']
separators == <<",", " and ", ";", "+">>

\* The inner loop over items, for one separator.
RECURSIVE splitEach(_, _)
splitEach(its, separator) ==
  IF its = <<>> THEN <<>>
  ELSE LET item == Head(its)
       IN (IF includes(item, separator)
           THEN trimAndFilter(split(item, separator))
           ELSE <<item>>) \o splitEach(Tail(its), separator)

\* The outer loop over separators.
RECURSIVE splitBy(_, _)
splitBy(its, k) ==
  IF k > Len(separators) THEN its ELSE splitBy(splitEach(its, separators[k]), k + 1)

splitOrderItems(t) == splitBy(<<t>>, 1)

(***************************************************************************)
(* messageParser.parseOrderItem                                            *)
(***************************************************************************)
Digits == {"0", "1", "2", "3", "4", "5", "6", "7", "8", "9"}

DigitValue(c) ==
  CASE c = "0" -> 0 [] c = "1" -> 1 [] c = "2" -> 2 [] c = "3" -> 3 [] c = "4" -> 4
    [] c = "5" -> 5 [] c = "6" -> 6 [] c = "7" -> 7 [] c = "8" -> 8 [] c = "9" -> 9

\* The group of /^(\d+)/: the longest run of digits s starts with.
RECURSIVE leadingDigits(_)
leadingDigits(s) ==
  IF s # "" /\ Head(s) \in Digits THEN Head(s) \o leadingDigits(Tail(s)) ELSE ""

\* parseInt of a run of digits.
RECURSIVE parseIntFrom(_, _)
parseIntFrom(ds, acc) ==
  IF ds = "" THEN acc ELSE parseIntFrom(Tail(ds), 10 * acc + DigitValue(Head(ds)))

parseInt(ds) == parseIntFrom(ds, 0)

\* String.prototype.split(/\s+/): the pieces between the runs of whitespace,
\* an empty piece before a leading run and after a trailing one.
RECURSIVE splitWhitespace(_)
splitWhitespace(s) ==
  LET At == {i \in 1..Len(s) : charAt(s, i) \in Whitespace}
  IN IF At = {} THEN <<s>>
     ELSE LET i == CHOOSE x \in At : \A y \in At : x <= y
          IN <<SubSeq(s, 1, i - 1)>> \o splitWhitespace(trimStart(SubSeq(s, i, Len(s))))

\* x when it is not null, else y.
orElse(x, y) == IF x # Null THEN x ELSE y

\* match.item of a match, null of null.
itemOfMatch(match) == IF match # Null THEN match.item ELSE Null

\* A variant of menuItemByWord that also tries the words shorter than 3; the
\* properties of parseOrderItem must tell it from menuItemByWord.
RECURSIVE menuItemByAnyWord(_, _)
menuItemByAnyWord(words, k) ==
  IF k > Len(words) THEN Null
  ELSE orElse(itemOfMatch(findBestMatch(words[k], menuItems)), menuItemByAnyWord(words, k + 1))

\* The first word of length >= 3 that findBestMatch matches in menuItems.
RECURSIVE menuItemByWord(_, _)
menuItemByWord(words, k) ==
  IF k > Len(words) THEN Null
  ELSE IF Len(words[k]) < 3 THEN menuItemByWord(words, k + 1)
  ELSE orElse(itemOfMatch(findBestMatch(words[k], menuItems)), menuItemByWord(words, k + 1))

\* "If no match found, try the whole text": the first key lowerText includes.
RECURSIVE menuItemByText(_, _)
menuItemByText(lowerText, n) ==
  IF n > Len(menuItems) THEN Null
  ELSE IF includes(lowerText, menuItems[n].key) THEN menuItems[n].item
  ELSE menuItemByText(lowerText, n + 1)

\* A variant of matchByWord that tries the words from the last to the first;
\* the properties of parseOrderItem must tell it from matchByWord.
RECURSIVE matchByLaterWord(_, _, _)
matchByLaterWord(words, dictionary, k) ==
  IF k > Len(words) THEN Null
  ELSE orElse(matchByLaterWord(words, dictionary, k + 1), findBestMatch(words[k], dictionary))

\* The first match findBestMatch finds for a word, in word order.
RECURSIVE matchByWord(_, _, _)
matchByWord(words, dictionary, k) ==
  IF k > Len(words) THEN Null
  ELSE orElse(findBestMatch(words[k], dictionary), matchByWord(words, dictionary, k + 1))

\* "Check for milk type phrases": the first entry of milkTypes whose key
\* lowerText includes.
RECURSIVE milkByText(_, _)
milkByText(lowerText, n) ==
  IF n > Len(milkTypes) THEN Null
  ELSE IF includes(lowerText, milkTypes[n].key) THEN milkTypes[n]
  ELSE milkByText(lowerText, n + 1)

\* A variant of menuNames that lists the names from the last to the first;
\* the properties of parseOrderItem must tell it from menuNames.
RECURSIVE menuNamesReversed(_)
menuNamesReversed(n) ==
  IF n > Len(menuItems) THEN ""
  ELSE menuNamesReversed(n + 1) \o (IF n < Len(menuItems) THEN ", " ELSE "")
         \o menuItems[n].item.name

\* Object.values(menuItems).map(item => item.name).join(', ')
RECURSIVE menuNames(_)
menuNames(n) ==
  IF n > Len(menuItems) THEN ""
  ELSE menuItems[n].item.name \o (IF n < Len(menuItems) THEN ", " ELSE "") \o menuNames(n + 1)

ItemNotFoundMessage == "Menu item not found. Available items: " \o menuNames(1)
ItemFailedMessage == "Failed to parse this item. Please try a simpler format."

\* A variant of quantityOf whose default grows with the calls of parseOrder
\* made so far; the properties of parseOrder must tell it from quantityOf.
quantityCounting(quantityMatch) ==
  IF quantityMatch # "" THEN parseInt(quantityMatch) ELSE 1 + Len(parses)

\* let quantity = 1; if (quantityMatch) quantity = parseInt(quantityMatch[1])
quantityOf(quantityMatch) == IF quantityMatch # "" THEN parseInt(quantityMatch) ELSE 1

\* The menu item: by word, and "if no match found, try the whole text".
resolveMenuItem(lowerText, words) ==
  orElse(menuItemByWord(words, 1), menuItemByText(lowerText, 1))

\* A variant of resolveSize whose default is a size no menu item lists; the
\* properties of parseOrderItem must tell it from resolveSize.
resolveSizeOrRegular(words) ==
  orElse(itemOfMatch(matchByWord(words, sizes, 1)), [name |-> "Regular", priceModifier |-> 0])

\* The size: messageParser.sizes['medium'] unless a word matches.
resolveSize(words) ==
  orElse(itemOfMatch(matchByWord(words, sizes, 1)), entryOf(sizes, "medium").item)

\* The milk, given the entry the phrase check found (or null).  milkType is
\* compared by identity with milkTypes['whole milk']: the words are tried
\* when no phrase was found or the phrase found is the key 'whole milk'.
milkAfterPhrase(words, phrase) ==
  IF phrase # Null /\ phrase.key # "whole milk"
  THEN phrase.item
  ELSE orElse(itemOfMatch(matchByWord(words, milkTypes, 1)), entryOf(milkTypes, "whole milk").item)

resolveMilk(lowerText, words) == milkAfterPhrase(words, milkByText(lowerText, 1))

\* A variant of orderItemOf that forgets the price of the milk; the
\* properties of parseOrderItem must tell it from orderItemOf.
orderItemWithoutMilkPrice(menuItem, quantity, size, milkType) ==
  [menuItem |-> menuItem,
   quantity |-> quantity,
   size |-> size.name,
   milkType |-> milkType.name,
   itemTotal |-> (menuItem.basePrice + size.priceModifier) * quantity]

\* const itemTotal = basePrice + size.priceModifier + milkType.priceModifier,
\* and the order item with itemTotal * quantity.
orderItemOf(menuItem, quantity, size, milkType) ==
  [menuItem |-> menuItem,
   quantity |-> quantity,
   size |-> size.name,
   milkType |-> milkType.name,
   itemTotal |-> (menuItem.basePrice + size.priceModifier + milkType.priceModifier) * quantity]

\* parseOrderItem from the menu item on.
itemResult(lowerText, words, quantity, menuItem) ==
  IF menuItem = Null
  THEN [success |-> FALSE, error |-> ItemNotFoundMessage]
  ELSE [success |-> TRUE,
        item |-> orderItemOf(menuItem, quantity, resolveSize(words), resolveMilk(lowerText, words))]

\* parseOrderItem from the split into words on.
itemFromWords(lowerText, words) ==
  itemResult(lowerText, words, quantityOf(leadingDigits(lowerText)),
             resolveMenuItem(lowerText, words))

itemFromLower(lowerText) == itemFromWords(lowerText, splitWhitespace(lowerText))

\* An exception on its way out of a try block, and the test for one.
Thrown(name) == [thrown |-> name]
isThrown(r) == "thrown" \in DOMAIN r

\* A variant of catchItem that lets the exception through; the properties of
\* parseOrderItem must tell it from catchItem.
rethrow(r) == r

\* parseOrderItem's catch: whatever its try block throws becomes a failure.
catchItem(r) == IF isThrown(r) THEN [success |-> FALSE, error |-> ItemFailedMessage] ELSE r

parseOrderItem(t) == catchItem(itemFromLower(toLowerCase(t)))

(***************************************************************************)
(* messageParser.parseOrder                                                *)
(***************************************************************************)
NoItemsMessage == "Please specify at least one item to order."
ParseFailedMessage == "Failed to parse your order. Please try again with a simpler format."

\* A variant of collect that puts an item before those collected so far; the
\* properties of parseOrder must tell it from collect.
collectInFront(result, acc) ==
  IF result.success /\ "item" \in DOMAIN result
  THEN [acc EXCEPT !.orderItems = <<result.item>> \o @]
  ELSE IF "error" \in DOMAIN result /\ result.error # ""
  THEN [acc EXCEPT !.errors = Append(@, result.error)]
  ELSE acc

\* One pass of the loop over orderItemTexts: acc is [orderItems, errors].
collect(result, acc) ==
  IF result.success /\ "item" \in DOMAIN result
  THEN [acc EXCEPT !.orderItems = Append(@, result.item)]
  ELSE IF "error" \in DOMAIN result /\ result.error # ""
  THEN [acc EXCEPT !.errors = Append(@, result.error)]
  ELSE acc

\* The loop over orderItemTexts: st is [acc, n], n the next text.
RECURSIVE parseEach(_, _)
parseEach(orderItemTexts, st) ==
  IF st.n > Len(orderItemTexts) THEN st.acc
  ELSE parseEach(orderItemTexts,
         [acc |-> collect(parseOrderItem(orderItemTexts[st.n]), st.acc), n |-> st.n + 1])

\* A variant of join that keeps the first string only; the properties of
\* parseOrder must tell it from join.
joinFirstOnly(strs, sep) == IF strs = <<>> THEN "" ELSE Head(strs)

\* Array.prototype.join
RECURSIVE join(_, _)
join(strs, sep) ==
  IF strs = <<>> THEN ""
  ELSE IF Len(strs) = 1 THEN Head(strs)
  ELSE Head(strs) \o sep \o join(Tail(strs), sep)

\* A variant of parsedOutcome that reports success whatever was parsed; the
\* properties of parseOrder must tell it from parsedOutcome.
parsedOutcomeAlwaysSuccess(parsed) == [success |-> TRUE, items |-> parsed.orderItems]

\* parseOrder after its loop: parsed is [orderItems, errors].
parsedOutcome(parsed) ==
  IF Len(parsed.orderItems) = 0
  THEN [success |-> FALSE,
        error |-> IF Len(parsed.errors) > 0
                  THEN "Failed to parse order: " \o join(parsed.errors, "; ")
                  ELSE ParseFailedMessage]
  ELSE [success |-> TRUE, items |-> parsed.orderItems]

\* A variant of parseTexts without the test for an empty list; the
\* properties of parseOrder must tell it from parseTexts.
parseTextsUnchecked(orderItemTexts) ==
  parsedOutcome(parseEach(orderItemTexts,
                  [acc |-> [orderItems |-> <<>>, errors |-> <<>>], n |-> 1]))

\* parseOrder after the split.
parseTexts(orderItemTexts) ==
  IF Len(orderItemTexts) = 0
  THEN [success |-> FALSE, error |-> NoItemsMessage]
  ELSE parsedOutcome(parseEach(orderItemTexts,
                       [acc |-> [orderItems |-> <<>>, errors |-> <<>>], n |-> 1]))

\* parseOrder's catch: whatever its try block throws becomes a failure.
catchOrder(r) == IF isThrown(r) THEN [success |-> FALSE, error |-> ParseFailedMessage] ELSE r

parseOrder(t) == catchOrder(parseTexts(splitOrderItems(t)))

(***************************************************************************)
(* orderCalculator                                                         *)
(***************************************************************************)
\* A variant of roundCurrency that drops the fraction of a cent; the
\* properties of createOrder must tell it from roundCurrency.
roundCurrencyDown(amount) == (amount \div Cent) * Cent

\* Math.round(amount * 100) / 100: to the nearest cent, a half rounded up.
roundCurrency(amount) == ((amount + Cent \div 2) \div Cent) * Cent

\* taxRate = 0.085
TaxRatePerMille == 85

calculateTax(subtotal) == roundCurrency((subtotal * TaxRatePerMille) \div 1000)

\* Date.now().toString().slice(-6): the last six digits of the clock.
TimestampModulus == 1000000

\* String.prototype.slice(-n)
sliceLast(s, n) == IF Len(s) <= n THEN s ELSE SubSeq(s, Len(s) - n + 1, Len(s))

\* `ORD-${timestamp}-${customerSuffix}`: the six digits are held as a number.
generateOrderId(customerId, clock) ==
  [timestamp |-> clock % TimestampModulus, customerSuffix |-> sliceLast(customerId, 3)]

\* items.reduce((total, item) => roundCurrency(total + item.itemTotal), 0)
RECURSIVE reduceSubtotal(_, _)
reduceSubtotal(its, total) ==
  IF its = <<>> THEN total
  ELSE reduceSubtotal(Tail(its), roundCurrency(total + Head(its).itemTotal))

\* now + 10 * 60000, shown by toLocaleTimeString as hour:minute AM/PM.
PrepTimeMs == 600000

timeOfMinute(m) ==
  [hour |-> IF (m \div 60) % 12 = 0 THEN 12 ELSE (m \div 60) % 12,
   minute |-> m % 60,
   period |-> IF m \div 60 < 12 THEN "AM" ELSE "PM"]

calculateReadyTime(clock) == timeOfMinute(((clock + PrepTimeMs) \div 60000) % 1440)

\* A variant of orderOf that leaves the first item out of the order; the
\* properties of createOrder must tell it from orderOf.
orderWithoutFirstItem(its, customer, clock, subtotal, tax) ==
  [id |-> generateOrderId(customer.id, clock),
   customerId |-> customer.id,
   customerName |-> customer.name,
   items |-> Tail(its),
   subtotal |-> subtotal,
   tax |-> tax,
   total |-> roundCurrency(subtotal + tax),
   estimatedReady |-> calculateReadyTime(clock)]

\* The order record, from the amounts.
orderOf(its, customer, clock, subtotal, tax) ==
  [id |-> generateOrderId(customer.id, clock),
   customerId |-> customer.id,
   customerName |-> customer.name,
   items |-> its,
   subtotal |-> subtotal,
   tax |-> tax,
   total |-> roundCurrency(subtotal + tax),
   estimatedReady |-> calculateReadyTime(clock)]

orderWithSubtotal(its, customer, clock, subtotal) ==
  orderOf(its, customer, clock, subtotal, calculateTax(subtotal))

createOrder(its, customer, clock) ==
  orderWithSubtotal(its, customer, clock, reduceSubtotal(its, 0))

(***************************************************************************)
(* Specification of calculateSimilarity applied to every pair of strings   *)
(* over SimAlphabet of length at most MaxStrLen.                           *)
(***************************************************************************)
SimAlphabet == {"a", "b", "A"}
SimStrings == StringsUpTo(SimAlphabet, MaxStrLen)

\* The variables a specification leaves alone.
\* The module is loaded: the dictionaries hold what their declarations say.
Loaded == menuItems = menuItemsAtLoad /\ sizes = sizesAtLoad /\ milkTypes = milkTypesAtLoad
NoSimilarity == str1 = "" /\ str2 = "" /\ score = Pending
NoParse ==
  /\ text = ""
  /\ items = Pending
  /\ parsedItem = Pending
  /\ parsedOrder = Pending
  /\ buyer = Null
  /\ order = Pending
NoRepeat == parses = <<>>
NoBot == now = 0 /\ updates = <<>> /\ pc = <<>> /\ handlers = <<>> /\ orders = <<>>

lexiconVars == <<menuItems, sizes, milkTypes>>
simVars == <<str1, str2, score>>
matchVars == <<matchTerm, matchDictionary, matchThreshold, matched>>
NoMatch == matchTerm = "" /\ matchDictionary = <<>> /\ matchThreshold = DefaultThreshold /\ matched = Pending
parseVars == <<text, items, parsedItem, parsedOrder, buyer, order>>
botVars == <<now, updates, pc, handlers, orders>>

SimInit ==
  /\ Loaded
  /\ str1 \in SimStrings
  /\ str2 \in SimStrings
  /\ score = Pending
  /\ NoMatch
  /\ NoParse
  /\ NoRepeat
  /\ NoBot

Similarity ==
  /\ score = Pending
  /\ score' = Returned(calculateSimilarity(str1, str2))
  /\ UNCHANGED <<lexiconVars, str1, str2, matchVars, parseVars, parses, botVars>>

SimNext == Similarity

SpecSim == SimInit /\ [][SimNext]_vars

(***************************************************************************)
(* Specification of findBestMatch applied to terms, to each of the three   *)
(* dictionaries and to thresholds: the default 0.7, and the scores 0.9 and *)
(* 0.5 that terms reach exactly.                                           *)
(***************************************************************************)
MatchTerms == {"", "a", "l", "s", "cap", "capp", "latt", "late", "lattes", "cappuccxyz",
               "smal", "big", "regular", "oat", "almond milk", "milk", "espresso", "xyz"}
Dictionaries == {menuItemsAtLoad, sizesAtLoad, milkTypesAtLoad}
Thresholds == {DefaultThreshold, ScoreContains, Frac(1, 2)}

MatchInit ==
  /\ Loaded
  /\ NoSimilarity
  /\ matchTerm \in MatchTerms
  /\ matchDictionary \in Dictionaries
  /\ matchThreshold \in Thresholds
  /\ matched = Pending
  /\ NoParse
  /\ NoRepeat
  /\ NoBot

Match ==
  /\ matched = Pending
  /\ matched' = Returned(findBestMatchAbove(matchTerm, matchDictionary, matchThreshold))
  /\ UNCHANGED <<lexiconVars, simVars, matchTerm, matchDictionary, matchThreshold, parseVars, parses, botVars>>

MatchNext == Match

SpecMatch == MatchInit /\ [][MatchNext]_vars

(***************************************************************************)
(* Specification of splitOrderItems applied to every text made of at most  *)
(* MaxPieces of SplitPieces: a letter, a space, each separator, and the    *)
(* word "and" without its spaces.                                          *)
(***************************************************************************)
SplitPieces == {"a", " ", ",", " and ", ";", "+", "and"}
SplitTexts == StringsUpTo(SplitPieces, MaxPieces)

SplitInit ==
  /\ Loaded
  /\ NoSimilarity
  /\ NoMatch
  /\ text \in SplitTexts
  /\ items = Pending
  /\ parsedItem = Pending
  /\ parsedOrder = Pending
  /\ buyer = Null
  /\ order = Pending
  /\ NoRepeat
  /\ NoBot

Split ==
  /\ items = Pending
  /\ items' = Returned(splitOrderItems(text))
  /\ UNCHANGED <<lexiconVars, simVars, matchVars, parses, text, parsedItem, parsedOrder, buyer, order, botVars>>

SplitNext == Split

SpecSplit == SplitInit /\ [][SplitNext]_vars

(***************************************************************************)
(* Specification of the parsing and pricing pipeline applied to order      *)
(* texts: parseOrderItem and parseOrder on the text, createOrder on the    *)
(* items parseOrder returned.                                              *)
(***************************************************************************)
\* An item text: quantity, size, drink and milk, each written or left out.
Quantities == {""} \cup {ToString(q) \o " " : q \in 0..MaxQuantity}
SizeWords == {"", "large ", "small "}
Drinks == {"latte", "cap", "espresso"}
MilkPhrases == {"", " with oat milk"}
ItemTexts == {q \o z \o d \o m : q \in Quantities, z \in SizeWords, d \in Drinks, m \in MilkPhrases}

\* The texts of several items: short item texts joined by separators.
ShortItems == {"latte", "2 cap", "espresso"}
ItemSeparators == {", ", " and "}

RECURSIVE JoinedUpTo(_)
JoinedUpTo(n) ==
  IF n <= 1 THEN ShortItems
  ELSE LET P == JoinedUpTo(n - 1)
       IN P \cup {p \o sep \o i : p \in P, sep \in ItemSeparators, i \in ShortItems}

\* Texts at the edges: empty, blank, only separators, padded, mixed case.
EdgeTexts == {"", " ", ",", " and ", " 2 latte", "latte ", "2 Large LATTE", "12 cappuccino",
              "blah blah blah", "a latte", "1 cappuccino with whole milk", "1 regular latte",
              "ca latte", "2 lattes", "1 cappuccino", "xyz abc", "1 smal cap with almond",
              "latte small", "a latte with whole milk"}

OrderTexts == ItemTexts \cup JoinedUpTo(MaxItems) \cup EdgeTexts

Customers == {[id |-> "1001", name |-> "Ann"], [id |-> "42", name |-> "Bob"]}

ParseInit ==
  /\ Loaded
  /\ NoSimilarity
  /\ NoMatch
  /\ text \in OrderTexts
  /\ items = Pending
  /\ parsedItem = Pending
  /\ parsedOrder = Pending
  /\ buyer = Null
  /\ order = Pending
  /\ NoRepeat
  /\ NoBot

ParseItem ==
  /\ parsedItem = Pending
  /\ parsedItem' = Returned(parseOrderItem(text))
  /\ UNCHANGED <<lexiconVars, simVars, matchVars, parses, text, items, parsedOrder, buyer, order, botVars>>

ParseOrder ==
  /\ parsedOrder = Pending
  /\ parsedOrder' = Returned(parseOrder(text))
  /\ items' = Returned(splitOrderItems(text))
  /\ UNCHANGED <<lexiconVars, simVars, matchVars, parses, text, parsedItem, buyer, order, botVars>>

CreateOrder ==
  /\ parsedOrder # Pending
  /\ ValueOf(parsedOrder).success
  /\ order = Pending
  /\ \E c \in Customers :
       /\ buyer' = c
       /\ order' = Returned(createOrder(ValueOf(parsedOrder).items, c, now))
  /\ UNCHANGED <<lexiconVars, simVars, matchVars, parses, text, items, parsedItem, parsedOrder, botVars>>

ParseNext == ParseItem \/ ParseOrder \/ CreateOrder

SpecParse == ParseInit /\ [][ParseNext]_vars

(***************************************************************************)
(* Specification of parseOrder called up to MaxParses times, one call      *)
(* after the other, on texts of RepeatTexts.                               *)
(***************************************************************************)
RepeatTexts == {"latte", "2 cap, latte", "1 espresso", ",", "a latte"}

RepeatInit == Loaded /\ NoSimilarity /\ NoMatch /\ NoParse /\ NoRepeat /\ NoBot

ParseAgain ==
  /\ Len(parses) < MaxParses
  /\ \E t \in RepeatTexts : parses' = Append(parses, [text |-> t, result |-> parseOrder(t)])
  /\ UNCHANGED <<lexiconVars, simVars, matchVars, parseVars, botVars>>

RepeatNext == ParseAgain

SpecRepeat == RepeatInit /\ [][RepeatNext]_vars

(***************************************************************************)
(* formatHtmlResponse and extractCustomer                                  *)
(***************************************************************************)
\* An Error object of class ParseError.
ParseError(message) == [class |-> "ParseError", message |-> message]

\* formatHtmlResponse.errorMessage: the template chosen by the error's class.
errorMessage(error) ==
  IF error.class = "MenuItemNotFoundError"
  THEN [template |-> "MenuItemNotFound", message |-> error.message]
  ELSE IF error.class = "ParseError"
  THEN [template |-> "DidNotUnderstand"]
  ELSE [template |-> "SomethingWentWrong"]

\* formatHtmlResponse.orderConfirmation
orderConfirmation(o) == [template |-> "OrderConfirmed", order |-> o]

\* extractCustomer: ctx.from.id.toString() and ctx.from.first_name.
extractCustomer(from) == [id |-> from.id, name |-> from.first_name]

(***************************************************************************)
(* The bot: text messages arrive, and bot.on(message('text')) runs on each *)
(* of them.  A run gives way to the other runs at each of its awaits.      *)
(***************************************************************************)
Users == {[id |-> "1001", first_name |-> "Ann"], [id |-> "2001", first_name |-> "Bob"]}
BotTexts == {"latte", "2 cap, latte", "1 espresso", "blah blah blah", "/start", ","}

\* The updates that arrive: private messages, and messages of groups.
Arrivals ==
  {[text |-> t, chatType |-> "private", from |-> u] : t \in BotTexts, u \in Users}
    \cup {[text |-> "latte", chatType |-> c, from |-> u] :
            c \in {"group", "supergroup"}, u \in {v \in Users : v.id = "1001"}}

Init == Loaded /\ NoSimilarity /\ NoMatch /\ NoParse /\ NoRepeat /\ NoBot

\* A text message arrives; its handler has not run yet.
Receive ==
  /\ Len(updates) < MaxUpdates
  /\ \E u \in Arrivals :
       /\ updates' = Append(updates, u)
       /\ pc' = Append(pc, "received")
       /\ handlers' = Append(handlers, [replies |-> <<>>])
  /\ UNCHANGED <<lexiconVars, simVars, matchVars, parseVars, parses, now, orders>>

\* A variant of HandleText without the test of the chat type; the properties
\* of the handler must tell it from HandleText.
HandleTextOfAnyChat(i) ==
  /\ pc[i] = "received"
  /\ IF startsWith(updates[i].text, "/")
     THEN /\ pc' = [pc EXCEPT ![i] = "done"]
          /\ UNCHANGED handlers
     ELSE /\ pc' = [pc EXCEPT ![i] = "parsed"]
          /\ handlers' = [handlers EXCEPT ![i] =
               [replies |-> @.replies,
                customer |-> extractCustomer(updates[i].from),
                parsedOrder |-> parseOrder(updates[i].text)]]
  /\ UNCHANGED <<lexiconVars, simVars, matchVars, parseVars, parses, now, updates, orders>>

\* The handler up to its first await: commands and messages of chats that
\* are not private are skipped, and the rest is given to parseOrder.
HandleText(i) ==
  /\ pc[i] = "received"
  /\ IF startsWith(updates[i].text, "/") \/ updates[i].chatType # "private"
     THEN /\ pc' = [pc EXCEPT ![i] = "done"]
          /\ UNCHANGED handlers
     ELSE /\ pc' = [pc EXCEPT ![i] = "parsed"]
          /\ handlers' = [handlers EXCEPT ![i] =
               [replies |-> @.replies,
                customer |-> extractCustomer(updates[i].from),
                parsedOrder |-> parseOrder(updates[i].text)]]
  /\ UNCHANGED <<lexiconVars, simVars, matchVars, parseVars, parses, now, updates, orders>>

\* A variant of ReplyParseError that sends nothing; the properties of the
\* handler must tell it from ReplyParseError.
EndWithoutReply(i) ==
  /\ pc[i] = "parsed"
  /\ ~handlers[i].parsedOrder.success
  /\ pc' = [pc EXCEPT ![i] = "done"]
  /\ UNCHANGED <<lexiconVars, simVars, matchVars, parseVars, parses, now, updates, handlers, orders>>

\* After await parseOrder, a failure: the error message is sent.
ReplyParseError(i) ==
  /\ pc[i] = "parsed"
  /\ ~handlers[i].parsedOrder.success
  /\ pc' = [pc EXCEPT ![i] = "done"]
  /\ handlers' = [handlers EXCEPT ![i] =
       [@ EXCEPT !.replies = Append(@, errorMessage(ParseError(handlers[i].parsedOrder.error)))]]
  /\ UNCHANGED <<lexiconVars, simVars, matchVars, parseVars, parses, now, updates, orders>>

\* After await parseOrder, a success: createOrder runs, up to its await.
CalculateOrder(i) ==
  /\ pc[i] = "parsed"
  /\ handlers[i].parsedOrder.success
  /\ pc' = [pc EXCEPT ![i] = "created"]
  /\ handlers' = [handlers EXCEPT ![i] =
       [replies |-> @.replies, customer |-> @.customer,
        parsedOrder |-> @.parsedOrder,
        order |-> createOrder(@.parsedOrder.items, @.customer, now)]]
  /\ orders' = Append(orders, createOrder(handlers[i].parsedOrder.items, handlers[i].customer, now))
  /\ UNCHANGED <<lexiconVars, simVars, matchVars, parseVars, parses, now, updates>>

\* A variant of ConfirmOrder that takes the first entry off the menu; the
\* properties of the lexicon must tell it from ConfirmOrder.
ConfirmOrderAndShortenMenu(i) ==
  /\ pc[i] = "created"
  /\ pc' = [pc EXCEPT ![i] = "done"]
  /\ handlers' = [handlers EXCEPT ![i] =
       [@ EXCEPT !.replies = Append(@, orderConfirmation(handlers[i].order))]]
  /\ menuItems' = Tail(menuItems)
  /\ UNCHANGED <<sizes, milkTypes, simVars, matchVars, parseVars, parses, now, updates, orders>>

\* After await createOrder: the order confirmation is sent.
ConfirmOrder(i) ==
  /\ pc[i] = "created"
  /\ pc' = [pc EXCEPT ![i] = "done"]
  /\ handlers' = [handlers EXCEPT ![i] =
       [@ EXCEPT !.replies = Append(@, orderConfirmation(handlers[i].order))]]
  /\ UNCHANGED <<lexiconVars, simVars, matchVars, parseVars, parses, now, updates, orders>>

\* A millisecond passes.
Tick ==
  /\ now < MaxClock
  /\ now' = now + 1
  /\ UNCHANGED <<lexiconVars, simVars, matchVars, parseVars, parses, updates, pc, handlers, orders>>

Next ==
  \/ Receive
  \/ \E i \in 1..Len(updates) : HandleText(i)
  \/ \E i \in 1..Len(updates) : ReplyParseError(i)
  \/ \E i \in 1..Len(updates) : CalculateOrder(i)
  \/ \E i \in 1..Len(updates) : ConfirmOrder(i)
  \/ Tick

Spec == Init /\ [][Next]_vars

\* The handler of update i goes on: its position changes, to one of the
\* positions a handler's run passes through.
HandlerStep(i) ==
  /\ i \in 1..Len(updates)
  /\ pc[i] # "done"
  /\ \E p \in {"parsed", "created", "done"} : pc' = [pc EXCEPT ![i] = p]

\* The event loop runs every handler that can go on: a handler that has not
\* started, or is waiting on a promise that has resolved, takes its next step.
SpecLive == Spec /\ \A i \in 1..MaxUpdates : WF_pc(HandlerStep(i))

(***************************************************************************)
(* Properties of calculateSimilarity, under SpecSim                        *)
(***************************************************************************)
\* The edit distance by its recurrence: an insertion, a deletion and a
\* substitution cost 1 each.
RECURSIVE EditDistance(_, _)
EditDistance(a, b) ==
  IF a = "" THEN Len(b)
  ELSE IF b = "" THEN Len(a)
  ELSE Min(Min(EditDistance(Tail(a), b) + 1, EditDistance(a, Tail(b)) + 1),
           EditDistance(Tail(a), Tail(b)) + (IF charAt(a, 1) = charAt(b, 1) THEN 0 ELSE 1))

\* The score of two lowercased strings as the contract defines it.
ContractScore(a, b) ==
  IF a = b THEN Frac(1, 1)
  ELSE IF (\E k \in 0..Len(a) : \E n \in 0..(Len(a) - k) : SubSeq(a, k + 1, k + n) = b)
          \/ (\E k \in 0..Len(b) : \E n \in 0..(Len(b) - k) : SubSeq(b, k + 1, k + n) = a)
  THEN Frac(9, 10)
  ELSE Frac(Max(Len(a), Len(b)) - EditDistance(a, b), Max(Len(a), Len(b)))

\* C9: calculateSimilarity is reflexive and symmetric: the score of a string
\* with itself is 1, also when the two differ in case only, and the score of
\* (a, b) is the score of (b, a).
C9_ReflexiveSymmetric ==
  score # Pending =>
    /\ calculateSimilarity(str1, str1) = ScoreOne
    /\ (toLowerCase(str1) = toLowerCase(str2) => ValueOf(score) = ScoreOne)
    /\ ValueOf(score) = calculateSimilarity(str2, str1)

\* Two strings that differ, neither within the other: the score comes from
\* the edit distance.
C9_Witness ==
  /\ score # Pending
  /\ str1 = "abb"
  /\ str2 = "bA"
  /\ ValueOf(score) = Frac(1, 3)

\* C10: the score is a value of [0, 1]: 1 when the lowercased strings are
\* equal, else 0.9 when one of them contains the other, else
\* 1 - distance / max(length) for the unit-cost edit distance.
C10_ScoreDefinition ==
  score # Pending =>
    /\ ScoreLE(ScoreZero, ValueOf(score))
    /\ ScoreLE(ValueOf(score), ScoreOne)
    /\ ValueOf(score) = ContractScore(toLowerCase(str1), toLowerCase(str2))

\* A substitution and a deletion: distance 2 of 3 characters.
C10_Witness ==
  /\ score # Pending
  /\ str1 = "aAb"
  /\ str2 = "bb"
  /\ ValueOf(score) = Frac(1, 3)

(***************************************************************************)
(* Properties of splitOrderItems, under SpecSplit                          *)
(***************************************************************************)
IsBlank(s) == \A k \in 1..Len(s) : charAt(s, k) \in Whitespace

\* C6: every element of the list splitOrderItems returns is a non-empty
\* string with no whitespace at its start and none at its end.
C6_PiecesTrimmedNonEmpty ==
  items # Pending =>
    \A k \in 1..Len(ValueOf(items)) :
      /\ ValueOf(items)[k] # ""
      /\ charAt(ValueOf(items)[k], 1) \notin Whitespace
      /\ charAt(ValueOf(items)[k], Len(ValueOf(items)[k])) \notin Whitespace

\* C7: splitOrderItems returns the empty list exactly when its input is
\* empty or only whitespace.
C7_EmptyListIffBlank ==
  items # Pending => (ValueOf(items) = <<>> <=> IsBlank(text))

(***************************************************************************)
(* Properties of parseOrderItem, parseOrder and createOrder, under         *)
(* SpecParse                                                               *)
(***************************************************************************)
RECURSIVE SumOfItemTotals(_)
SumOfItemTotals(its) ==
  IF its = <<>> THEN 0 ELSE Head(its).itemTotal + SumOfItemTotals(Tail(its))

PriceModifierOf(options, name) ==
  (CHOOSE k \in {options[n] : n \in 1..Len(options)} : k.name = name).priceModifier

\* C1: in every order createOrder returns, the subtotal is the sum of the
\* items' totals, the tax is 8.5% of the subtotal rounded to the nearest
\* cent, a half cent rounded up, and the total is the subtotal plus the tax.
C1_OrderAmounts ==
  order # Pending =>
    /\ ValueOf(order).items = ValueOf(parsedOrder).items
    /\ ValueOf(order).subtotal = SumOfItemTotals(ValueOf(order).items)
    /\ ValueOf(order).subtotal % Cent = 0
    /\ ValueOf(order).tax % Cent = 0
    /\ 1000 * ValueOf(order).tax - 85 * ValueOf(order).subtotal > -500 * Cent
    /\ 1000 * ValueOf(order).tax - 85 * ValueOf(order).subtotal <= 500 * Cent
    /\ ValueOf(order).total = ValueOf(order).subtotal + ValueOf(order).tax

\* An order of several items whose tax falls on half a cent before rounding.
C1_Witness ==
  /\ order # Pending
  /\ Len(ValueOf(order).items) >= 2
  /\ (85 * ValueOf(order).subtotal) % (1000 * Cent) = 500 * Cent
  /\ 1000 * ValueOf(order).tax = 85 * ValueOf(order).subtotal + 500 * Cent

C4_ParseOutcome ==
  parsedOrder # Pending =>
    \/ /\ DOMAIN ValueOf(parsedOrder) = {"success", "items"}
       /\ ValueOf(parsedOrder).success = TRUE
       /\ Len(ValueOf(parsedOrder).items) > 0
    \/ /\ DOMAIN ValueOf(parsedOrder) = {"success", "error"}
       /\ ValueOf(parsedOrder).success = FALSE
       /\ Len(ValueOf(parsedOrder).error) > 0

\* A text of which one piece is parsed and another is not.
C4_Witness ==
  /\ parsedOrder # Pending
  /\ ValueOf(parsedOrder).success
  /\ Len(ValueOf(parsedOrder).items) < Len(ValueOf(items))

\* C5: every item parseOrderItem returns has a quantity of at least 1: the
\* value of the digits the text starts with, or 1 when it starts with none.
C5_QuantityPositive ==
  (parsedItem # Pending /\ ValueOf(parsedItem).success) =>
    /\ ValueOf(parsedItem).item.quantity >= 1
    /\ ValueOf(parsedItem).item.quantity =
         (IF leadingDigits(text) = "" THEN 1 ELSE parseInt(leadingDigits(text)))

\* C8: when the split of the text yields no piece, parseOrder returns a
\* failure that asks for at least one item, and no item.
C8_NoPiecesNoItems ==
  (parsedOrder # Pending /\ ValueOf(items) = <<>>) =>
    ValueOf(parsedOrder) =
      [success |-> FALSE, error |-> "Please specify at least one item to order."]

\* A text of separators only.
C8_Witness ==
  /\ parsedOrder # Pending
  /\ text = " and "
  /\ ValueOf(items) = <<>>
  /\ ~ValueOf(parsedOrder).success

(***************************************************************************)
(* Properties of the bot, under Spec                                       *)
(***************************************************************************)
\* C3: any two orders createOrder returns for the same customer have
\* different ids, however close in time the two calls are.
C3_OrderIdsUnique ==
  \A i, j \in 1..Len(orders) :
    (i # j /\ orders[i].customerId = orders[j].customerId) => orders[i].id # orders[j].id

(***************************************************************************)
(* Properties of findBestMatch, under SpecMatch                            *)
(***************************************************************************)
\* The scores of a term against the key and the aliases of an entry.
EntryScores(term, entry) ==
  {calculateSimilarity(term, entry.key)}
    \cup (IF "aliases" \in DOMAIN entry.item
          THEN {calculateSimilarity(term, entry.item.aliases[k]) :
                  k \in 1..Len(entry.item.aliases)}
          ELSE {})

\* The greatest of a non-empty set of scores.
GreatestScore(S) == CHOOSE x \in S : \A y \in S : ~ScoreGT(y, x)

EntryBest(term, entry) == GreatestScore(EntryScores(term, entry))

\* The first entry, in declaration order, whose best score no entry exceeds.
FirstBestEntry(term, dictionary) ==
  CHOOSE i \in 1..Len(dictionary) :
    /\ \A j \in 1..Len(dictionary) :
         ~ScoreGT(EntryBest(term, dictionary[j]), EntryBest(term, dictionary[i]))
    /\ \A j \in 1..(i - 1) :
         ScoreGT(EntryBest(term, dictionary[i]), EntryBest(term, dictionary[j]))

ExpectedMatch(term, dictionary, threshold, i) ==
  IF ScoreGT(EntryBest(term, dictionary[i]), threshold)
  THEN [key |-> dictionary[i].key, item |-> dictionary[i].item,
        score |-> EntryBest(term, dictionary[i])]
  ELSE Null

Least(S) == CHOOSE x \in S : \A y \in S : x <= y

\* The words of length >= 3 that findBestMatch matches in the menu.
MatchingWords(words) ==
  {k \in 1..Len(words) : Len(words[k]) >= 3 /\ findBestMatch(words[k], menuItems) # Null}

\* The menu keys the text contains.
ContainedKeys(lowerText) ==
  {n \in 1..Len(menuItems) : includes(lowerText, menuItems[n].key)}

\* What C12 expects of a result, given the words and the keys that match.
ResolvedAsExpected(result, words, byWord, byText) ==
  IF byWord # {}
  THEN result.success
       /\ result.item.menuItem = findBestMatch(words[Least(byWord)], menuItems).item
  ELSE IF byText # {}
  THEN result.success /\ result.item.menuItem = menuItems[Least(byText)].item
  ELSE result = [success |-> FALSE,
                 error |-> "Menu item not found. Available items: Cappuccino, Latte"]

\* C12: the menu item is the match of the first word of length >= 3 that
\* findBestMatch matches in the menu, shorter words never being tried; with
\* no such word it is the first menu key the lowercased text contains; with
\* neither, the result is the item-not-found failure.
C12_MenuItemResolution ==
  parsedItem # Pending =>
    ResolvedAsExpected(ValueOf(parsedItem), splitWhitespace(toLowerCase(text)),
                       MatchingWords(splitWhitespace(toLowerCase(text))),
                       ContainedKeys(toLowerCase(text)))

\* A word of two letters that the menu would match is passed over.
C12_Witness ==
  /\ parsedItem # Pending
  /\ text = "ca latte"
  /\ findBestMatch("ca", menuItems) # Null
  /\ findBestMatch("ca", menuItems).item.name = "Cappuccino"
  /\ ValueOf(parsedItem).success
  /\ ValueOf(parsedItem).item.menuItem.name = "Latte"

\* The score the edit distance alone gives two strings.
EditScore(a, b) ==
  IF Max(Len(a), Len(b)) = 0 THEN ScoreOne
  ELSE Frac(Max(Len(a), Len(b)) - levenshtein(a, b), Max(Len(a), Len(b)))

\* A word names a term of a dictionary when it is one of its keys, contains
\* one, or is a misspelling of one (an edit score above the threshold).
NamesTermOf(word, dictionary) ==
  \E n \in 1..Len(dictionary) :
    \/ word = dictionary[n].key
    \/ (Len(dictionary[n].key) >= 3 /\ includes(word, dictionary[n].key))
    \/ (word # "" /\ ScoreGT(EditScore(word, dictionary[n].key), DefaultThreshold))

NoWordNames(words, dictionary) == \A k \in 1..Len(words) : ~NamesTermOf(words[k], dictionary)

\* C13: when a menu item is resolved and no word of the text is a size term,
\* the item has the Medium size, whose price modifier is 0.
C13_DefaultSize ==
  (/\ parsedItem # Pending
   /\ ValueOf(parsedItem).success
   /\ NoWordNames(splitWhitespace(toLowerCase(text)), sizes)) =>
    /\ ValueOf(parsedItem).item.size = "Medium"
    /\ PriceModifierOf(ValueOf(parsedItem).item.menuItem.sizes,
                       ValueOf(parsedItem).item.size) = 0

\* C14: when a menu item is resolved and the text has no milk term, neither
\* a key of the milk dictionary within it nor a word naming a milk, the item
\* has Whole Milk, whose price modifier is 0.
C14_DefaultMilk ==
  (/\ parsedItem # Pending
   /\ ValueOf(parsedItem).success
   /\ \A n \in 1..Len(milkTypes) : ~includes(toLowerCase(text), milkTypes[n].key)
   /\ NoWordNames(splitWhitespace(toLowerCase(text)), milkTypes)) =>
    /\ ValueOf(parsedItem).item.milkType = "Whole Milk"
    /\ PriceModifierOf(ValueOf(parsedItem).item.menuItem.milkOptions,
                       ValueOf(parsedItem).item.milkType) = 0

(***************************************************************************)
(* Properties of parseOrder's results, under SpecParse                     *)
(***************************************************************************)
ItemIfSucceeded(result) == IF result.success THEN <<result.item>> ELSE <<>>

\* The items of the pieces parseOrderItem succeeds on, each parsed on its
\* own, in the order of the pieces.
RECURSIVE SucceededItems(_)
SucceededItems(pieces) ==
  IF pieces = <<>> THEN <<>>
  ELSE ItemIfSucceeded(parseOrderItem(Head(pieces))) \o SucceededItems(Tail(pieces))

\* C15: a successful result of parseOrder is exactly the items of the pieces
\* that parseOrderItem succeeds on, in the order of the pieces, and it
\* reports no error for the pieces that failed.
C15_SucceededInOrder ==
  (parsedOrder # Pending /\ ValueOf(parsedOrder).success) =>
    ValueOf(parsedOrder) = [success |-> TRUE, items |-> SucceededItems(ValueOf(items))]

\* A failing piece followed by two pieces that succeed.
C15_Witness ==
  /\ parsedOrder # Pending
  /\ text = "espresso, latte, 2 cap"
  /\ ValueOf(items) = <<"espresso", "latte", "2 cap">>
  /\ ValueOf(parsedOrder).success
  /\ Len(ValueOf(parsedOrder).items) = 2
  /\ ValueOf(parsedOrder).items[1].menuItem.name = "Latte"
  /\ ValueOf(parsedOrder).items[2].menuItem.name = "Cappuccino"
  /\ ValueOf(parsedOrder).items[2].quantity = 2

C17_MenuNamesInError ==
  /\ (parsedItem # Pending /\ ~ValueOf(parsedItem).success) =>
       ValueOf(parsedItem).error = "Menu item not found. Available items: Cappuccino, Latte"
  /\ (parsedOrder # Pending /\ ~ValueOf(parsedOrder).success /\ ValueOf(items) # <<>>) =>
       /\ startsWith(ValueOf(parsedOrder).error, "Failed to parse order: ")
       /\ includes(ValueOf(parsedOrder).error,
                   "Menu item not found. Available items: Cappuccino, Latte")

\* Two pieces that name no menu item: the error holds the list for each.
C17_Witness ==
  /\ parsedOrder # Pending
  /\ text = "espresso and espresso"
  /\ ValueOf(parsedOrder) =
       [success |-> FALSE,
        error |-> "Failed to parse order: "
                    \o "Menu item not found. Available items: Cappuccino, Latte; "
                    \o "Menu item not found. Available items: Cappuccino, Latte"]

(***************************************************************************)
(* Properties of the replies of the bot, under Spec                        *)
(***************************************************************************)
\* The handler of update i has finished on a private message of this text.
AnsweredText(i, t) ==
  /\ updates[i].text = t
  /\ updates[i].chatType = "private"
  /\ pc[i] = "done"

\* C18: a private message whose only item is a drink that is not on the
\* menu is answered with the menu-item-not-found error that lists the
\* available items, not with the did-not-understand error.
C18_UnknownDrinkReply ==
  \A i \in 1..Len(updates) :
    AnsweredText(i, "1 espresso") =>
      /\ Len(handlers[i].replies) = 1
      /\ handlers[i].replies[1].template = "MenuItemNotFound"

\* C19: a message in which nothing names a menu item is answered with the
\* did-not-understand guidance, and the answer differs from the answer to a
\* drink that is not on the menu.
C19_ParseFailureReply ==
  \A i \in 1..Len(updates) :
    AnsweredText(i, "blah blah blah") =>
      /\ handlers[i].replies = <<[template |-> "DidNotUnderstand"]>>
      /\ \A j \in 1..Len(updates) :
           AnsweredText(j, "1 espresso") =>
             /\ handlers[j].replies # handlers[i].replies
             /\ handlers[j].parsedOrder.error # handlers[i].parsedOrder.error

C21_LexiconUnchanged ==
  /\ menuItems = menuItemsAtLoad
  /\ sizes = sizesAtLoad
  /\ milkTypes = milkTypesAtLoad

\* Two customers' messages handled to the end, the order of the second
\* customer created before the order of the first.
C21_Witness ==
  /\ Len(updates) = 2
  /\ updates[1].from # updates[2].from
  /\ pc[1] = "done"
  /\ pc[2] = "done"
  /\ Len(orders) = 2
  /\ orders[1].customerId = updates[2].from.id
  /\ menuItems = menuItemsAtLoad

(***************************************************************************)
(* Properties of the text message handler, under Spec                      *)
(***************************************************************************)
\* C22: any two orders the bot created have different ids, also when they
\* are for different customers and were created at the same instant.
C22_AllOrderIdsUnique ==
  \A i, j \in 1..Len(orders) : i # j => orders[i].id # orders[j].id

\* The message of update i is an order message: no command, a private chat.
IsOrderMessage(i) ==
  /\ SubSeq(updates[i].text, 1, 1) # "/"
  /\ updates[i].chatType = "private"

\* C23: the handler parses a message exactly when its text does not begin
\* with '/' and its chat is private; a command or a message of another chat
\* is neither parsed nor priced nor answered.
C23_OnlyPrivateOrders ==
  /\ \A i \in 1..Len(updates) :
       pc[i] # "received" =>
         /\ ("parsedOrder" \in DOMAIN handlers[i]) <=> IsOrderMessage(i)
         /\ ~IsOrderMessage(i) =>
              /\ pc[i] = "done"
              /\ "order" \notin DOMAIN handlers[i]
              /\ handlers[i].replies = <<>>
  /\ \A k \in 1..Len(orders) :
       \E i \in 1..Len(updates) :
         /\ IsOrderMessage(i)
         /\ "order" \in DOMAIN handlers[i]
         /\ handlers[i].order = orders[k]

\* A message of a group and a command, both handled, and nothing sent.
C23_Witness ==
  /\ Len(updates) = 2
  /\ updates[1].chatType = "supergroup"
  /\ updates[1].text = "latte"
  /\ updates[2].chatType = "private"
  /\ updates[2].text = "/start"
  /\ pc[1] = "done" /\ handlers[1] = [replies |-> <<>>]
  /\ pc[2] = "done" /\ handlers[2] = [replies |-> <<>>]
  /\ orders = <<>>

\* What update i is answered with once its handler is done.
AnsweredOnce(i) ==
  /\ pc[i] = "done"
  /\ Len(handlers[i].replies) = 1
  /\ IF handlers[i].parsedOrder.success
     THEN /\ "order" \in DOMAIN handlers[i]
          /\ handlers[i].replies[1] = [template |-> "OrderConfirmed", order |-> handlers[i].order]
     ELSE handlers[i].replies[1].template \in {"DidNotUnderstand", "MenuItemNotFound",
                                                "SomethingWentWrong"}

\* C29 (always): an order message never has more than one reply, a handler
\* that is done has answered once, and createOrder is called only after
\* parseOrder returned a success.
RepliesInOrder ==
  \A i \in 1..Len(updates) :
    IsOrderMessage(i) =>
      /\ Len(handlers[i].replies) <= 1
      /\ pc[i] = "done" => AnsweredOnce(i)
      /\ "order" \in DOMAIN handlers[i] =>
           ("parsedOrder" \in DOMAIN handlers[i] /\ handlers[i].parsedOrder.success)

\* C29: replies being sent without failure, every order message is
\* eventually answered exactly once, with the order confirmation when
\* parseOrder succeeds and createOrder returns, else with one error message;
\* createOrder is called only after parseOrder returned a success.
C29_EveryOrderMessageAnswered ==
  /\ []RepliesInOrder
  /\ \A i \in 1..MaxUpdates :
       (Len(updates) >= i /\ IsOrderMessage(i)) ~> (Len(updates) >= i /\ AnsweredOnce(i))

\* One message answered with a confirmation and one with an error message.
C29_Witness ==
  /\ Len(updates) = 2
  /\ pc[1] = "done"
  /\ pc[2] = "done"
  /\ updates[1].text = "1 espresso"
  /\ updates[2].text = "2 cap, latte"
  /\ Len(handlers[1].replies) = 1
  /\ handlers[1].replies[1].template = "DidNotUnderstand"
  /\ Len(handlers[2].replies) = 1
  /\ handlers[2].replies[1].template = "OrderConfirmed"
  /\ Len(handlers[2].replies[1].order.items) = 2

(***************************************************************************)
(* Further properties of parseOrderItem, parseOrder and createOrder, under *)
(* SpecParse                                                               *)
(***************************************************************************)
\* What parseOrderItem returns for each piece of the text.
PieceResults == [k \in 1..Len(ValueOf(items)) |-> parseOrderItem(ValueOf(items)[k])]

\* The errors of the pieces from the k-th on, in the order of the pieces,
\* with "; " between one and the next.
RECURSIVE PieceErrorsFrom(_)
PieceErrorsFrom(k) ==
  IF k > Len(PieceResults) THEN ""
  ELSE PieceResults[k].error \o (IF k < Len(PieceResults) THEN "; " ELSE "")
         \o PieceErrorsFrom(k + 1)

\* C24: when every piece of the text fails, parseOrder fails with the errors
\* of the pieces, one per piece in the order of the text, joined by "; "
\* after the words "Failed to parse order: "; the generic message is returned
\* only if no piece left an error.
C24_JoinedItemErrors ==
  (parsedOrder # Pending /\ ValueOf(items) # <<>>) =>
    /\ (\A k \in 1..Len(PieceResults) : ~PieceResults[k].success) =>
         /\ ~ValueOf(parsedOrder).success
         /\ \A k \in 1..Len(PieceResults) : "error" \in DOMAIN PieceResults[k]
         /\ ValueOf(parsedOrder).error = "Failed to parse order: " \o PieceErrorsFrom(1)
    /\ (~ValueOf(parsedOrder).success /\ ValueOf(parsedOrder).error = ParseFailedMessage) =>
         \A k \in 1..Len(PieceResults) : "error" \notin DOMAIN PieceResults[k]

\* Three pieces that all fail: three errors, in a row.
C24_Witness ==
  /\ parsedOrder # Pending
  /\ text = "espresso, espresso and espresso"
  /\ Len(ValueOf(items)) = 3
  /\ ValueOf(parsedOrder).error =
       "Failed to parse order: " \o ItemNotFoundMessage \o "; " \o ItemNotFoundMessage
         \o "; " \o ItemNotFoundMessage

\* The words, by position, that findBestMatch matches in the size dictionary.
WordsWithSize(words) == {k \in 1..Len(words) : findBestMatch(words[k], sizes) # Null}

\* The size of the first of the words that has a match.
SizeOfFirstMatch(words) == findBestMatch(words[Least(WordsWithSize(words))], sizes).item

ContainedMilkKeys(lowerText) ==
  {n \in 1..Len(milkTypes) : includes(lowerText, milkTypes[n].key)}

\* C26: when the lowercased text of an item contains a key of the milk
\* dictionary, the milk of the item is that of the first such key in the
\* order of the dictionary, and the words of the text play no part.
C26_MilkPhraseFirst ==
  (/\ parsedItem # Pending
   /\ ValueOf(parsedItem).success
   /\ ContainedMilkKeys(toLowerCase(text)) # {}) =>
    ValueOf(parsedItem).item.milkType =
      milkTypes[Least(ContainedMilkKeys(toLowerCase(text)))].item.name

\* C27: createOrder leaves the items and the customer it is given as they
\* were, and the order it returns has the customer's id and name and the
\* items themselves: the same items, in the same order, none added, dropped
\* or priced anew.
C27_OrderCopiesInputs ==
  order # Pending =>
    /\ ValueOf(parsedOrder) = parseOrder(text)
    /\ buyer \in Customers
    /\ ValueOf(order).customerId = buyer.id
    /\ ValueOf(order).customerName = buyer.name
    /\ Len(ValueOf(order).items) = Len(ValueOf(parsedOrder).items)
    /\ \A k \in 1..Len(ValueOf(order).items) :
         ValueOf(order).items[k] = ValueOf(parsedOrder).items[k]

\* An order of three items for the customer 42, Bob.
C27_Witness ==
  /\ order # Pending
  /\ text = "latte, 2 cap and latte"
  /\ buyer = [id |-> "42", name |-> "Bob"]
  /\ ValueOf(order).customerId = "42"
  /\ ValueOf(order).customerName = "Bob"
  /\ Len(ValueOf(order).items) = 3
  /\ ValueOf(order).items[2].quantity = 2
  /\ ValueOf(order).items[2].menuItem.name = "Cappuccino"

(***************************************************************************)
(* A further property of splitOrderItems, under SpecSplit                   *)
(***************************************************************************)
\* C28: no element of the list splitOrderItems returns contains a separator:
\* a comma, a semicolon, a plus sign, or the word "and" between two spaces.
C28_NoSeparatorInPieces ==
  items # Pending =>
    \A k \in 1..Len(ValueOf(items)) :
      \A sep \in {",", ";", "+", " and "} : ~includes(ValueOf(items)[k], sep)

\* A text with an " and " and a plus sign at its end: two pieces, both "a".
C28_Witness ==
  /\ items # Pending
  /\ text = "a and a+"
  /\ ValueOf(items) = <<"a", "a">>

(***************************************************************************)
(* The options parseOrderItem chooses and the options a menu item lists,   *)
(* under SpecParse                                                         *)
(***************************************************************************)
\* The options of a list of a menu item: its sizes, or its milkOptions.
OptionsOf(list) == {list[n] : n \in 1..Len(list)}

\* The size and the milk chosen for an item are options its menu item lists,
\* and the item bears their names.
ChosenFromOwnLists(item, size, milkType) ==
  /\ size \in OptionsOf(item.menuItem.sizes)
  /\ milkType \in OptionsOf(item.menuItem.milkOptions)
  /\ item.size = size.name
  /\ item.milkType = milkType.name

\* C30: the size parseOrderItem chooses for an item, name and price
\* modifier, is in the sizes of the item's menu item, and the milk it
\* chooses is in that menu item's milkOptions; no entry of the size and milk
\* dictionaries holds an option that a menu item does not list.
C30_OptionsOfTheMenuItem ==
  /\ \A m \in 1..Len(menuItems) :
       /\ \A n \in 1..Len(sizes) : sizes[n].item \in OptionsOf(menuItems[m].item.sizes)
       /\ \A n \in 1..Len(milkTypes) :
            milkTypes[n].item \in OptionsOf(menuItems[m].item.milkOptions)
  /\ (parsedItem # Pending /\ ValueOf(parsedItem).success) =>
       ChosenFromOwnLists(ValueOf(parsedItem).item,
                          resolveSize(splitWhitespace(toLowerCase(text))),
                          resolveMilk(toLowerCase(text), splitWhitespace(toLowerCase(text))))

\* A misspelt size and a milk named by one word: Small (-0.50) and Almond
\* Milk (+0.50), both listed by Cappuccino.
C30_Witness ==
  /\ parsedItem # Pending
  /\ text = "1 smal cap with almond"
  /\ ValueOf(parsedItem).success
  /\ ValueOf(parsedItem).item.menuItem.name = "Cappuccino"
  /\ ValueOf(parsedItem).item.size = "Small"
  /\ [name |-> "Small", priceModifier |-> -50 * Cent]
       \in OptionsOf(ValueOf(parsedItem).item.menuItem.sizes)
  /\ ValueOf(parsedItem).item.milkType = "Almond Milk"
  /\ [name |-> "Almond Milk", priceModifier |-> 50 * Cent]
       \in OptionsOf(ValueOf(parsedItem).item.menuItem.milkOptions)

====
